---- MODULE Spec2Model ----
(***************************************************************************)
(* Model of the request handlers of app/app.py (upload_file, get_feed,     *)
(* delete_post) and of the media store client app/images.py                *)
(* (upload_image).  Each handler runs as one step against the post table,  *)
(* the user table and the temporary directory.  Strings whose characters   *)
(* the code inspects (post ids, content types, file names) are sequences   *)
(* of one-character strings; a UUID value is its sequence of 32 hex        *)
(* digits, most significant first.                                         *)
(***************************************************************************)
EXTENDS Integers, Sequences, FiniteSets, TLC

----------------------------------------------------------------------------
(* Bounds of the model. *)

\* Rows the post table can hold (the id generator has that many values).
MaxPosts == 2

----------------------------------------------------------------------------
(* Character-level helpers (Python str methods used by the code). *)

HexLower == <<"0","1","2","3","4","5","6","7","8","9","a","b","c","d","e","f">>
HexUpper == <<"0","1","2","3","4","5","6","7","8","9","A","B","C","D","E","F">>

\* Number of hex digits of a UUID (uuid.UUID: len(hex) != 32 is rejected).
UuidHexLen == 32

IsHexChar(c) == \E i \in 1..16 : HexLower[i] = c \/ HexUpper[i] = c

HexVal(c) == (CHOOSE i \in 1..16 : HexLower[i] = c \/ HexUpper[i] = c) - 1

\* s.startswith(p)
StartsWith(s, p) == Len(s) >= Len(p) /\ SubSeq(s, 1, Len(p)) = p

\* s.replace(p, <<>>): every non-overlapping occurrence, left to right.
RECURSIVE RemoveAll(_, _)
RemoveAll(s, p) ==
    IF s = <<>> THEN <<>>
    ELSE IF StartsWith(s, p) THEN RemoveAll(SubSeq(s, Len(p) + 1, Len(s)), p)
    ELSE <<Head(s)>> \o RemoveAll(Tail(s), p)

\* s.lstrip(chars) / s.rstrip(chars) / s.strip(chars)
RECURSIVE LStrip(_, _)
LStrip(s, chars) ==
    IF s # <<>> /\ Head(s) \in chars THEN LStrip(Tail(s), chars) ELSE s

RECURSIVE RStrip(_, _)
RStrip(s, chars) ==
    IF s # <<>> /\ s[Len(s)] \in chars
    THEN RStrip(SubSeq(s, 1, Len(s) - 1), chars) ELSE s

Strip(s, chars) == RStrip(LStrip(s, chars), chars)

\* s.rfind(c): 1-based index of the last c, 0 when absent.
RFind(s, c) ==
    IF \E i \in 1..Len(s) : s[i] = c
    THEN CHOOSE i \in 1..Len(s) : s[i] = c /\ \A j \in (i+1)..Len(s) : s[j] # c
    ELSE 0

\* os.path.splitext(p)[1] (posixpath): the extension starts at the last dot
\* after the last "/", unless only dots precede it in the base name.
SplitextExt(p) ==
    LET sep == RFind(p, "/")
        dot == RFind(p, ".")
    IN  IF dot > sep /\ \E k \in (sep + 1)..(dot - 1) : p[k] # "."
        THEN SubSeq(p, dot, Len(p))
        ELSE <<>>

\* os.path.basename(p)
Basename(p) == SubSeq(p, RFind(p, "/") + 1, Len(p))

----------------------------------------------------------------------------
(* uuid.UUID: parsing of the path parameter and str() of a value. *)

\* str(uuid): lowercase hex in groups 8-4-4-4-12 joined by "-".
UUIDStr(u) ==
    LET h == [k \in 1..UuidHexLen |-> HexLower[u[k] + 1]]
    IN  SubSeq(h, 1, 8) \o <<"-">> \o SubSeq(h, 9, 12) \o <<"-">>
        \o SubSeq(h, 13, 16) \o <<"-">> \o SubSeq(h, 17, 20) \o <<"-">>
        \o SubSeq(h, 21, 32)

\* The hex digits uuid.UUID(s) extracts before it checks and converts them.
UUIDHexOf(s) ==
    RemoveAll(Strip(RemoveAll(RemoveAll(s, <<"u","r","n",":">>),
                              <<"u","u","i","d",":">>),
                    {"{", "}"}),
              <<"-">>)

\* uuid.UUID(s) raises ValueError (wrong length, or int(hex, 16) fails).
UUIDRaises(s) ==
    LET h == UUIDHexOf(s)
    IN  Len(h) # UuidHexLen \/ \E k \in 1..Len(h) : ~IsHexChar(h[k])

\* uuid.UUID(s) when it does not raise.
UUIDParse(s) ==
    LET h == UUIDHexOf(s) IN [k \in 1..UuidHexLen |-> HexVal(h[k])]

\* s.upper() on the characters a UUID string can hold.
Upper(s) ==
    [k \in 1..Len(s) |->
        IF \E i \in 1..16 : HexLower[i] = s[k]
        THEN HexUpper[CHOOSE i \in 1..16 : HexLower[i] = s[k]]
        ELSE s[k]]

----------------------------------------------------------------------------
(* Values. *)

\* Optional values: None is the empty tuple, a present value v is <<v>>.
NoneV == <<>>
Some(v) == <<v>>

\* The i-th UUID value of the post-id pool and of the user-id pool.
PostUUID(i) == [k \in 1..UuidHexLen |-> (i + k) % 16]
UserUUID(i) == [k \in 1..UuidHexLen |-> (5 * i + 3 * k) % 16]

PostIds == {PostUUID(i) : i \in 1..MaxPosts}
UserIdx == {1, 2}
UserIds == {UserUUID(i) : i \in UserIdx}

EmailOf(u) == <<"user", CHOOSE i \in UserIdx : UserUUID(i) = u, "@example.com">>

\* str(u) for the UUID values of the model, computed once.
UUIDStrOf == [u \in PostIds \cup UserIds |-> UUIDStr(u)]

\* Path parameters the client sends to DELETE /posts/{post_id}.
CanonicalInputs == {UUIDStr(u) : u \in PostIds}

WellFormedInputs ==
    CanonicalInputs
    \cup { <<"u","r","n",":","u","u","i","d",":","{">>
           \o Upper(RemoveAll(UUIDStr(PostUUID(1)), <<"-">>)) \o <<"}">> }

MalformedInputs ==
    { SubSeq(UUIDStr(PostUUID(1)), 1, 35),
      <<"g">> \o Tail(UUIDStr(PostUUID(1))) }

PostIdInputs == WellFormedInputs \cup MalformedInputs

\* uuid.UUID(s) for the path parameters of the model, computed once.
UUIDOf ==
    [s \in PostIdInputs |->
        IF UUIDRaises(s) THEN [raises |-> TRUE, value |-> <<>>]
        ELSE [raises |-> FALSE, value |-> UUIDParse(s)]]

\* Uploaded parts: file name, declared content type (None when the part has
\* none) and caption.
PhotoPng == <<"p","h","o","t","o",".","p","n","g">>
ClipMp4 == <<"c","l","i","p",".","m","p","4">>

UploadRequests ==
    { [filename |-> PhotoPng, caption |-> "hi",
       content_type |-> Some(<<"i","m","a","g","e","/","p","n","g">>)],
      [filename |-> ClipMp4, caption |-> "",
       content_type |-> Some(<<"v","i","d","e","o","/","m","p","4">>)],
      [filename |-> PhotoPng, caption |-> "hi", content_type |-> NoneV],
      [filename |-> PhotoPng, caption |-> "hi", content_type |-> Some(<<>>)],
      [filename |-> PhotoPng, caption |-> "hi",
       content_type |-> Some(<<"v","i","d","e","o">>)],
      [filename |-> PhotoPng, caption |-> "hi",
       content_type |-> Some(<<"V","i","d","e","o","/","m","p","4">>)] }

\* What the remote media store can answer to one upload call.
RemoteOutcomes ==
    { [kind |-> "raise"],
      [kind |-> "none"],
      [kind |-> "ok", url |-> "", name |-> "photo_x1.png"],
      [kind |-> "ok", url |-> "https://ik.example/photo_x1.png", name |-> "photo_x1.png"] }

\* Names tempfile can pick for a new file.
TmpTokens == {<<"t","m","p","a","1">>}
TmpDir == <<"/","t","m","p","/">>

\* Values of the database clock (seconds).
Times == {0, 1}

----------------------------------------------------------------------------
(* Exceptions. *)

NoExc == [cls |-> "none"]
HTTPException(code, msg) == [cls |-> "HTTPException", status_code |-> code, detail |-> msg]
ValueError == [cls |-> "ValueError", msg |-> "badly formed hexadecimal UUID string"]
OSError == [cls |-> "OSError", msg |-> "I/O error"]
MediaStoreError == [cls |-> "APIError", msg |-> "upload rejected"]
DBError == [cls |-> "SQLAlchemyError", msg |-> "database error"]

\* isinstance(e, cls): every modelled class derives from Exception.
IsInstance(e, cls) == e.cls # "none" /\ (cls = "Exception" \/ e.cls = cls)

\* str(e); for an HTTPException, "<status_code>: <detail>".
StrOf(e) ==
    IF e.cls = "HTTPException"
    THEN <<ToString(e.status_code), ": ", e.detail>>
    ELSE <<e.msg>>

----------------------------------------------------------------------------
(* DELETE /posts/{post_id} *)

\* Delete requests: the path parameter and the database statement that
\* fails ("select", "commit" or "none").
DeleteCases ==
    { [post_id |-> s, fault |-> "none"] : s \in PostIdInputs }
    \cup { [post_id |-> UUIDStr(PostUUID(1)), fault |-> f] :
             f \in {"select", "commit"} }

\* Lines 154-167, the body of the second try block.  rows is the post table,
\* db the statements issued so far.  Yields the exception raised (NoExc when
\* the body returns), the returned body, the table and the statements.
DeleteBody(rows, post_uuid, uid, fault) ==
    IF fault = "select"
    THEN [exc |-> DBError, ret |-> NoneV, posts |-> rows,
          db |-> <<"select">>, found |-> {}]
    ELSE LET found == {p \in rows : p.id = post_uuid}
         IN  IF found = {}
             THEN [exc |-> HTTPException(404, "Post not found"), ret |-> NoneV,
                   posts |-> rows, db |-> <<"select">>, found |-> found]
             ELSE LET post == CHOOSE p \in found : TRUE
                  IN  IF post.user_id # uid
                      THEN [exc |-> HTTPException(403,
                                "You don't have permission to delete this post"),
                            ret |-> NoneV, posts |-> rows,
                            db |-> <<"select">>, found |-> found]
                      ELSE IF fault = "commit"
                      THEN [exc |-> DBError, ret |-> NoneV, posts |-> rows,
                            db |-> <<"select", "delete", "commit">>, found |-> found]
                      ELSE [exc |-> NoExc,
                            ret |-> Some([success |-> TRUE,
                                          message |-> "Post deleted successfully"]),
                            posts |-> rows \ {post},
                            db |-> <<"select", "delete", "commit">>, found |-> found]

\* Lines 169-172: "except Exception as e" around the second try block.
DeleteExcept(out) ==
    IF IsInstance(out.exc, "Exception")
    THEN [out EXCEPT !.exc = HTTPException(500, StrOf(out.exc))]
    ELSE out

\* The handler that parses the id inside the catch-all block.
DeletePostParseInsideTry(rows, post_id, uid, fault) ==
    IF UUIDOf[post_id].raises
    THEN DeleteExcept([exc |-> ValueError, ret |-> NoneV, posts |-> rows,
                       db |-> <<>>, found |-> {}])
    ELSE DeleteExcept(DeleteBody(rows, UUIDOf[post_id].value, uid, fault))

\* The handler whose success path forgets the row filter.
DeletePostDropsAll(rows, post_id, uid, fault) ==
    IF UUIDOf[post_id].raises
    THEN [exc |-> HTTPException(400, "Invalid post ID format"), ret |-> NoneV,
          posts |-> rows, db |-> <<>>, found |-> {}]
    ELSE LET out == DeleteExcept(DeleteBody(rows, UUIDOf[post_id].value, uid, fault))
         IN  IF out.exc.cls = "none" THEN [out EXCEPT !.posts = {}] ELSE out

\* The handler without the ownership check.
DeletePostNoOwnerCheck(rows, post_id, uid, fault) ==
    IF UUIDOf[post_id].raises
    THEN [exc |-> HTTPException(400, "Invalid post ID format"), ret |-> NoneV,
          posts |-> rows, db |-> <<>>, found |-> {}]
    ELSE LET post_uuid == UUIDOf[post_id].value
             found == {p \in rows : p.id = post_uuid}
         IN  IF found = {}
             THEN DeleteExcept(DeleteBody(rows, post_uuid, uid, fault))
             ELSE DeleteExcept(DeleteBody(rows, post_uuid,
                                          (CHOOSE p \in found : TRUE).user_id, fault))

\* Lines 143-172, delete_post: the first try block (149-152) turns a
\* ValueError of uuid.UUID into a 400 raised outside the second try block.
DeletePost(rows, post_id, uid, fault) ==
    IF UUIDOf[post_id].raises
    THEN IF IsInstance(ValueError, "ValueError")
         THEN [exc |-> HTTPException(400, "Invalid post ID format"), ret |-> NoneV,
               posts |-> rows, db |-> <<>>, found |-> {}]
         ELSE [exc |-> ValueError, ret |-> NoneV, posts |-> rows,
               db |-> <<>>, found |-> {}]
    ELSE DeleteExcept(DeleteBody(rows, UUIDOf[post_id].value, uid, fault))

\* The status the framework answers with: 200 for a returned body, the
\* status_code of a raised HTTPException, 500 for any other exception.
StatusOf(out) ==
    IF out.exc.cls = "none" THEN 200
    ELSE IF out.exc.cls = "HTTPException" THEN out.exc.status_code
    ELSE 500

----------------------------------------------------------------------------
(* app/images.py *)

\* upload_image: opens file_path for reading (fails when it does not exist),
\* sends it with the given file_name (the base name of the path when none is
\* given) and use_unique_file_name, and returns the store's answer.
UploadImage(fs, file_path, file_name, remote) ==
    LET sent == [file_name |-> IF file_name = <<>> THEN Basename(file_path)
                               ELSE file_name,
                 use_unique_file_name |-> TRUE,
                 tags |-> <<"backend-upload">>]
    IN  IF file_path \notin fs
        THEN [exc |-> OSError, result |-> NoneV, sent |-> NoneV]
        ELSE IF remote.kind = "raise"
        THEN [exc |-> MediaStoreError, result |-> NoneV, sent |-> Some(sent)]
        ELSE IF remote.kind = "none"
        THEN [exc |-> NoExc, result |-> NoneV, sent |-> Some(sent)]
        ELSE [exc |-> NoExc,
              result |-> Some([url |-> remote.url, name |-> remote.name]),
              sent |-> Some(sent)]

----------------------------------------------------------------------------
(* POST /upload *)

RemoteOk == [kind |-> "ok", url |-> "https://ik.example/photo_x1.png",
             name |-> "photo_x1.png"]

\* What can happen to one upload request: the local stage that fails
\* ("mktemp", "copy", "commit", "refresh" or "none") and the store's answer.
UploadScenarios ==
    { [fault |-> f, remote |-> RemoteOk] :
        f \in {"none", "mktemp", "copy", "commit", "refresh"} }
    \cup { [fault |-> "none", remote |-> r] : r \in RemoteOutcomes }

\* The scenarios in which the handler gets as far as inserting the row.
ReachesInsert(sc) ==
    sc.fault \in {"none", "refresh"} /\ sc.remote.kind = "ok" /\ sc.remote.url # ""

\* Upload requests with what happens to them; every request can succeed,
\* the failures are tried on the first one.
UploadCases ==
    { [file |-> r, sc |-> [fault |-> "none", remote |-> RemoteOk]] :
        r \in UploadRequests }
    \cup { [file |-> r, sc |-> sc] :
             r \in {q \in UploadRequests : q.content_type
                        = Some(<<"i","m","a","g","e","/","p","n","g">>)},
             sc \in UploadScenarios }

\* Line 83: "video" if the content type is truthy and starts with "video/".
FileTypeAnyVideoPrefix(content_type) ==
    IF content_type # NoneV /\ StartsWith(content_type[1], <<"v","i","d","e","o">>)
    THEN "video" ELSE "image"

FileType(content_type) ==
    IF content_type # NoneV /\ content_type[1] # <<>>
       /\ StartsWith(content_type[1], <<"v","i","d","e","o","/">>)
    THEN "video" ELSE "image"

\* Post.id and Post.created_at are column defaults of the Post table,
\* evaluated when the row is inserted: a fresh id and the clock's value.
PostIdDefault(rows) == PostIds \ {p.id : p \in rows}
CreatedAtDefault == Times

\* Lines 79-85: the Post the handler constructs.
NewPost(id, uid, caption, result, content_type, now) ==
    [id |-> id, user_id |-> uid, caption |-> caption, url |-> result.url,
     file_type |-> FileType(content_type), file_name |-> result.name,
     created_at |-> now]

\* Lines 66-70: the path of the temporary file, suffix from the file name.
TempPath(tok, filename) == TmpDir \o tok \o SplitextExt(filename)

\* Line 78 without the url test.
UploadResultOkNoUrlTest(result) == result # NoneV

\* Line 78: "upload_result and upload_result.url".
UploadResultOk(result) == result # NoneV /\ result[1].url # ""

\* Lines 64-92, the try block.  fs is the temporary directory, rows the post
\* table.  Yields the exception raised (NoExc when the block returns), the
\* returned post, the directory, the table and temp_file_path.
UploadTry(fs, rows, file, caption, uid, fault, remote, tok, id, now) ==
    IF fault = "mktemp"
    THEN [exc |-> OSError, ret |-> NoneV, fs |-> fs, posts |-> rows,
          temp_file_path |-> NoneV]
    ELSE
    LET path == TempPath(tok, file.filename)
        fs1 == fs \cup {path}
    IN  IF fault = "copy"
        THEN [exc |-> OSError, ret |-> NoneV, fs |-> fs1, posts |-> rows,
              temp_file_path |-> Some(path)]
        ELSE
        LET up == UploadImage(fs1, path, file.filename, remote)
        IN  IF up.exc.cls # "none"
            THEN [exc |-> up.exc, ret |-> NoneV, fs |-> fs1, posts |-> rows,
                  temp_file_path |-> Some(path)]
            ELSE IF UploadResultOk(up.result)
            THEN LET post == NewPost(id, uid, caption, up.result[1],
                                     file.content_type, now)
                 IN  IF fault = "commit"
                     THEN [exc |-> DBError, ret |-> NoneV, fs |-> fs1,
                           posts |-> rows, temp_file_path |-> Some(path)]
                     ELSE IF fault = "refresh"
                     THEN [exc |-> DBError, ret |-> NoneV, fs |-> fs1,
                           posts |-> rows \cup {post},
                           temp_file_path |-> Some(path)]
                     ELSE [exc |-> NoExc, ret |-> Some(post), fs |-> fs1,
                           posts |-> rows \cup {post},
                           temp_file_path |-> Some(path)]
            ELSE [exc |-> HTTPException(500, "Upload failed"), ret |-> NoneV,
                  fs |-> fs1, posts |-> rows, temp_file_path |-> Some(path)]

\* Lines 94-97: "except Exception as e".
UploadExcept(out) ==
    IF IsInstance(out.exc, "Exception")
    THEN [out EXCEPT !.exc = HTTPException(500, StrOf(out.exc))]
    ELSE out

\* A finally block that removes the file only when the try block returned.
UploadFinallyOnSuccessOnly(out) ==
    IF out.exc.cls = "none" /\ out.temp_file_path # NoneV
       /\ out.temp_file_path[1] \in out.fs
    THEN [out EXCEPT !.fs = out.fs \ {out.temp_file_path[1]}]
    ELSE out

\* Lines 99-101: the finally block removes the temporary file if it exists.
UploadFinally(out) ==
    IF out.temp_file_path # NoneV /\ out.temp_file_path[1] \in out.fs
    THEN [out EXCEPT !.fs = out.fs \ {out.temp_file_path[1]}]
    ELSE out

\* Lines 55-102, upload_file.
UploadFile(fs, rows, file, caption, uid, fault, remote, tok, id, now) ==
    UploadFinally(UploadExcept(
        UploadTry(fs, rows, file, caption, uid, fault, remote, tok, id, now)))

----------------------------------------------------------------------------
(* GET /feed *)

FeedFaults == {"none", "posts", "users"}

\* Line 113: the rows in an order "ORDER BY created_at DESC" can return
\* (rows with equal created_at in any order).
OrderByCreatedAtAsc(rows) ==
    LET n == Cardinality(rows)
    IN  { s \in [1..n -> rows] :
            /\ \A i, j \in 1..n : i # j => s[i] # s[j]
            /\ \A i, j \in 1..n : i < j => s[i].created_at <= s[j].created_at }

OrderByCreatedAtDesc(rows) ==
    LET n == Cardinality(rows)
    IN  { s \in [1..n -> rows] :
            /\ \A i, j \in 1..n : i # j => s[i] # s[j]
            /\ \A i, j \in 1..n : i < j => s[i].created_at >= s[j].created_at }

\* Line 130: created_at.isoformat(), None for a missing timestamp.
IsoFormat(t) ==
    Some(<<"1970-01-01T00:00:", HexLower[(t \div 10) + 1], HexLower[(t % 10) + 1]>>)

\* Line 119: {u.id: u.email for u in users}
UserDict(usersTable) ==
    [id \in {u.id : u \in usersTable} |->
        (CHOOSE u \in usersTable : u.id = id).email]

\* Line 131 comparing against the post's own author.
IsOwnerAlways(post, uid) == post.user_id = post.user_id

\* Line 131: post.user_id == user.id
IsOwner(post, uid) == post.user_id = uid

\* Lines 123-133: one entry of the response.
PostView(post, uid, user_dict) ==
    [id |-> UUIDStrOf[post.id],
     user_id |-> UUIDStrOf[post.user_id],
     caption |-> post.caption,
     url |-> post.url,
     file_type |-> post.file_type,
     file_name |-> post.file_name,
     created_at |-> IsoFormat(post.created_at),
     is_owner |-> IsOwner(post, uid),
     email |-> IF post.user_id \in DOMAIN user_dict
               THEN user_dict[post.user_id] ELSE <<"Unknown">>]

\* Lines 106-139, get_feed; ordered is the result of the first query.
GetFeed(ordered, usersTable, uid, fault) ==
    IF fault = "posts"
    THEN [exc |-> HTTPException(500, StrOf(DBError)), ret |-> NoneV,
          db |-> <<"select posts">>]
    ELSE IF fault = "users"
    THEN [exc |-> HTTPException(500, StrOf(DBError)), ret |-> NoneV,
          db |-> <<"select posts", "select users">>]
    ELSE [exc |-> NoExc,
          ret |-> Some([posts |->
                    [i \in 1..Len(ordered) |->
                        PostView(ordered[i], uid, UserDict(usersTable))]]),
          db |-> <<"select posts", "select users">>]

----------------------------------------------------------------------------
(* The system: the post table, the user table, the temporary directory and
   the last request served with its response. *)

VARIABLES posts, users, tempdir, last

vars == <<posts, users, tempdir, last>>

Init ==
    /\ posts = {}
    /\ users = {}
    /\ tempdir = {}
    /\ last = [op |-> "none"]

\* POST /auth/register (lines 30-34): a new account.
Register(u) ==
    /\ u \notin {x.id : x \in users}
    /\ users' = users \cup {[id |-> u, email |-> EmailOf(u)]}
    /\ last' = [op |-> "register", caller |-> u]
    /\ UNCHANGED <<posts, tempdir>>

\* DELETE /users/{id} (lines 48-52): an account is removed.
RemoveUser(u) ==
    /\ u \in {x.id : x \in users}
    /\ users' = {x \in users : x.id # u}
    /\ last' = [op |-> "remove_user", caller |-> u]
    /\ UNCHANGED <<posts, tempdir>>

\* POST /upload by the authenticated user uid.
Upload(uid, file, sc, tok, id, now) ==
    LET out == UploadFile(tempdir, posts, file, file.caption, uid,
                          sc.fault, sc.remote, tok, id, now)
    IN  /\ posts' = out.posts
        /\ tempdir' = out.fs
        /\ last' = [op |-> "upload", caller |-> uid, status |-> StatusOf(out),
                    fault |-> sc.fault, remote |-> sc.remote,
                    content_type |-> file.content_type,
                    temp_file_path |-> out.temp_file_path,
                    body |-> out.ret]
        /\ UNCHANGED users

\* GET /feed by the authenticated user uid.
Feed(uid, fault, ordered) ==
    LET out == GetFeed(ordered, users, uid, fault)
    IN  /\ last' = [op |-> "feed", caller |-> uid, status |-> StatusOf(out),
                    fault |-> fault, body |-> out.ret]
        /\ UNCHANGED <<posts, users, tempdir>>

\* DELETE /posts/{post_id} by the authenticated user uid.
Delete(uid, post_id, fault) ==
    LET out == DeletePost(posts, post_id, uid, fault)
    IN  /\ posts' = out.posts
        /\ last' = [op |-> "delete", caller |-> uid, post_id |-> post_id,
                    status |-> StatusOf(out), fault |-> fault,
                    db |-> out.db, found |-> out.found, body |-> out.ret]
        /\ UNCHANGED <<users, tempdir>>

Next ==
    \/ \E u \in UserIds : Register(u)
    \/ \E u \in UserIds : RemoveUser(u)
    \/ \E u \in {x.id : x \in users}, c \in UploadCases, tok \in TmpTokens :
          IF ReachesInsert(c.sc)
          THEN \E id \in PostIdDefault(posts), now \in CreatedAtDefault :
                  Upload(u, c.file, c.sc, tok, id, now)
          ELSE Upload(u, c.file, c.sc, tok, PostUUID(1), 0)
    \/ \E u \in {x.id : x \in users}, f \in FeedFaults,
          ordered \in OrderByCreatedAtDesc(posts) : Feed(u, f, ordered)
    \/ \E u \in {x.id : x \in users}, c \in DeleteCases :
            Delete(u, c.post_id, c.fault)

Spec == Init /\ [][Next]_vars

----------------------------------------------------------------------------
(* Properties. *)

\* The post a well-formed path parameter names, as a set of rows of tbl.
Targeted(tbl, post_id) ==
    IF UUIDOf[post_id].raises THEN {}
    ELSE {p \in tbl : p.id = UUIDOf[post_id].value}

\* The entries of the feed response held in l.
Entries(l) == l.body[1].posts

\* C1: a delete of an existing post by a caller who is not its owner, with
\* the database working, is answered with 403 Forbidden.
C1_NonOwnerDeleteAnswers403 ==
    [][ (/\ last'.op = "delete"
         /\ last'.fault = "none"
         /\ \E p \in Targeted(posts, last'.post_id) : p.user_id # last'.caller)
        => last'.status = 403 ]_vars

\* C2: a delete with a well-formed id that names no post, with the database
\* working, is answered with 404 NotFound.
C2_MissingPostDeleteAnswers404 ==
    [][ (/\ last'.op = "delete"
         /\ last'.fault = "none"
         /\ ~UUIDOf[last'.post_id].raises
         /\ Targeted(posts, last'.post_id) = {})
        => last'.status = 404 ]_vars

\* C3: a delete whose id does not parse as a UUID is answered with 400, the
\* handler has issued no database statement, and the post table is unchanged.
C3_MalformedIdAnswers400BeforeDb ==
    [][ (last'.op = "delete" /\ UUIDOf[last'.post_id].raises)
        => /\ last'.status = 400
           /\ last'.db = <<>>
           /\ posts' = posts ]_vars

C3_Witness ==
    /\ last.op = "delete"
    /\ UUIDOf[last.post_id].raises
    /\ last.status = 400
    /\ posts # {}

\* C4: a delete by a caller who is not the owner leaves the post table as it
\* was; a row leaves the table only by a delete of its owner naming it; and
\* every feed response lists every row of the table with its fields.
C4_NonOwnerDeleteKeepsPost ==
    [][ /\ (/\ last'.op = "delete"
            /\ \E p \in Targeted(posts, last'.post_id) : p.user_id # last'.caller)
           => posts' = posts
        /\ \A p \in posts \ posts' :
              /\ last'.op = "delete"
              /\ last'.caller = p.user_id
              /\ p \in Targeted(posts, last'.post_id)
        /\ (last'.op = "feed" /\ last'.status = 200)
           => \A p \in posts' : \E i \in 1..Len(Entries(last')) :
                 /\ Entries(last')[i].id = UUIDStr(p.id)
                 /\ Entries(last')[i].user_id = UUIDStr(p.user_id)
                 /\ Entries(last')[i].caption = p.caption
                 /\ Entries(last')[i].url = p.url
                 /\ Entries(last')[i].file_type = p.file_type
                 /\ Entries(last')[i].file_name = p.file_name ]_vars

C4_Witness ==
    /\ last.op = "delete"
    /\ last.fault = "none"
    /\ \E p \in Targeted(posts, last.post_id) : p.user_id # last.caller

\* The upload request held in l failed before its commit completed.
FailedBeforeCommit(l) ==
    \/ l.fault \in {"mktemp", "copy", "commit"}
    \/ l.remote.kind \in {"raise", "none"}
    \/ (l.remote.kind = "ok" /\ l.remote.url = "")

\* C5: an upload that fails before its commit completes is answered with 500
\* and leaves the post table exactly as it was.
C5_FailedUploadPersistsNothing ==
    [][ (last'.op = "upload" /\ FailedBeforeCommit(last'))
        => (last'.status = 500 /\ posts' = posts) ]_vars

C5_Witness ==
    /\ last.op = "upload"
    /\ last.remote.kind = "ok" /\ last.remote.url = ""
    /\ last.temp_file_path # NoneV
    /\ last.status = 500
    /\ posts # {}

\* C6: when an upload request has been served, the temporary file it created
\* is gone, and the temporary directory holds no file at all.
C6_TempFileAlwaysRemoved ==
    /\ tempdir = {}
    /\ (last.op = "upload" /\ last.temp_file_path # NoneV)
       => last.temp_file_path[1] \notin tempdir

C6_Witness ==
    /\ last.op = "upload"
    /\ last.temp_file_path # NoneV
    /\ last.fault = "commit"
    /\ last.status = 500
    /\ tempdir = {}

\* The declared content type starts with "video/".
DeclaredVideo(content_type) ==
    /\ content_type # NoneV
    /\ Len(content_type[1]) >= 6
    /\ SubSeq(content_type[1], 1, 6) = <<"v","i","d","e","o","/">>

\* C7: every row of the post table has a non-empty url and file_type image or
\* video, and a row an upload inserts is a video exactly when the declared
\* content type starts with "video/" and an image otherwise.
C7_PersistedPostsClassified ==
    [][ /\ \A p \in posts' : p.url # "" /\ p.file_type \in {"image", "video"}
        /\ last'.op = "upload"
           => \A p \in posts' \ posts :
                 /\ DeclaredVideo(last'.content_type) => p.file_type = "video"
                 /\ ~DeclaredVideo(last'.content_type) => p.file_type = "image"
      ]_vars

C7_Witness ==
    /\ last.op = "upload"
    /\ last.status = 200
    /\ last.content_type = Some(<<"v","i","d","e","o">>)
    /\ \E p \in posts : p.file_type = "video"
    /\ \E p \in posts : p.file_type = "image" /\ last.body = Some(p)

\* The row of the table an entry of a feed response stands for.
RowOf(entry) == CHOOSE p \in posts : UUIDStr(p.id) = entry.id

\* C8: a feed response lists every row of the post table exactly once, and
\* of two adjacent entries the earlier has the greater or equal created_at.
C8_FeedCompleteAndNewestFirst ==
    (last.op = "feed" /\ last.status = 200)
    => LET r == Entries(last)
       IN  /\ Len(r) = Cardinality(posts)
           /\ {r[i].id : i \in 1..Len(r)} = {UUIDStr(p.id) : p \in posts}
           /\ \A i, j \in 1..Len(r) : i # j => r[i].id # r[j].id
           /\ \A i \in 1..Len(r) : r[i].created_at = IsoFormat(RowOf(r[i]).created_at)
           /\ \A i \in 1..(Len(r) - 1) :
                 RowOf(r[i]).created_at >= RowOf(r[i + 1]).created_at

C8_Witness ==
    /\ last.op = "feed"
    /\ last.status = 200
    /\ Len(Entries(last)) = MaxPosts
    /\ \E i \in 1..(Len(Entries(last)) - 1) :
          RowOf(Entries(last)[i]).created_at > RowOf(Entries(last)[i + 1]).created_at

\* C9: in a feed response an entry's is_owner is true exactly when the post
\* belongs to the caller, and everything else in the entry is the row's data,
\* the same whoever asks.
C9_IsOwnerIffCallerOwns ==
    (last.op = "feed" /\ last.status = 200)
    => \A i \in 1..Len(Entries(last)) :
          LET e == Entries(last)[i]
          IN  /\ e.is_owner <=> (e.user_id = UUIDStr(last.caller))
              /\ \E p \in posts :
                    /\ e.id = UUIDStr(p.id)
                    /\ e.user_id = UUIDStr(p.user_id)
                    /\ e.is_owner <=> (p.user_id = last.caller)
                    /\ e.caption = p.caption /\ e.url = p.url
                    /\ e.file_type = p.file_type /\ e.file_name = p.file_name
                    /\ e.email = IF \E u \in users : u.id = p.user_id
                                 THEN EmailOf(p.user_id) ELSE <<"Unknown">>

C9_Witness ==
    /\ last.op = "feed"
    /\ last.status = 200
    /\ \E i, j \in 1..Len(Entries(last)) :
          Entries(last)[i].is_owner /\ ~Entries(last)[j].is_owner

\* C10: a delete of an existing post by its owner, with the database working,
\* returns the success acknowledgment, removes that row and no other, and
\* leaves the users alone; a feed response lists only rows of the table.
C10_OwnerDeleteRemovesExactlyThePost ==
    [][ /\ (last'.op = "delete" /\ last'.fault = "none")
           => \A p \in Targeted(posts, last'.post_id) :
                 p.user_id = last'.caller
                 => /\ last'.status = 200
                    /\ last'.body = Some([success |-> TRUE,
                                          message |-> "Post deleted successfully"])
                    /\ posts' = posts \ {p}
                    /\ p \in posts
                    /\ users' = users
        /\ (last'.op = "feed" /\ last'.status = 200)
           => \A i \in 1..Len(Entries(last')) :
                 \E p \in posts' : UUIDStr(p.id) = Entries(last')[i].id ]_vars

C10_Witness ==
    /\ last.op = "delete"
    /\ last.status = 200
    /\ Cardinality(posts) = MaxPosts - 1
    /\ \A p \in posts : p.id # UUIDOf[last.post_id].value

====
